---- MODULE Spec2Model ----
(***************************************************************************)
(* DocMineAI: the chunking, response parsing, result merging and           *)
(* extraction pipeline of src/src/text_processor.py and src/extract.py.    *)
(*                                                                         *)
(* Texts are sequences of one-character strings.  Offsets are 0-based as   *)
(* in the Python source; the sequence index of offset i is i + 1.          *)
(***************************************************************************)
EXTENDS Integers, Sequences, FiniteSets, TLC

VARIABLES
    text,        \* chunk_text: the argument
    chunk_size,  \* TextProcessor.chunk_size
    overlap,     \* TextProcessor.overlap
    start,       \* chunk_text: the local start
    chunks,      \* chunk_text: the local list chunks (the result once pc = "done")
    windows,     \* history: <<start, end>> of every iteration of the while loop
    pc,          \* chunk_text: "call", "loop" or "done"
    response,    \* parse_yaml_from_text: the argument, as the reply was built
    yaml_text,   \* parse_yaml_from_text: the local yaml_text
    parsed,      \* parse_yaml_from_text: the value returned
    parse_pc,    \* parse_yaml_from_text: "call", "load", "done" or "idle"
    fallback_used, \* parse_yaml_from_text: the except branch was taken
    results,     \* merge_yaml_results: the argument
    merged,      \* merge_yaml_results: the local dict merged (the result once done)
    merge_i,     \* merge_yaml_results: how many results the outer loop has taken
    merge_pc,    \* merge_yaml_results: "loop", "done" or "idle"
    extracted_texts,  \* extract_information: the texts of the ingested documents
    extraction_types, \* extract_information: the configured categories, in schema order
    doc_i,       \* extract_information: how many documents the outer loop has taken
    type_i,      \* extract_information: how many categories the loop has taken for this document
    chunk_i,     \* extract_information: how many chunks the loop has taken for this category
    type_results,  \* extract_information: the local list type_results
    run_results, \* extract_information: the local dict results (returned once run_pc = "done")
    collected,   \* history: per category, every value appended to type_results in the run
    attempts,    \* history: how many times the try block of the chunk loop was entered
    errors,      \* history: how many times its except clause logged an error
    calls,       \* history: how many times self.llm.generate was called
    format_errors, \* history: how many times format_prompt raised
    merges,      \* history: how many times merge_yaml_results was called
    run_pc,      \* extract_information: "doc", "type", "chunk", "done" or "idle"
    fault,       \* main: the structural fault of the environment, or "none"
    writable,    \* main: whether the output file can be written
    processors,  \* DocumentRAGExtractor.processors: the file types with a processor
    schema,      \* the categories of the extraction_schema section, in order
    files,       \* process_documents: the files of the documents directory
    file_i,      \* process_documents: how many files the loops have taken
    output_written,  \* history: save_results has written the output file
    exit_code,   \* main: the exit code of the process, -1 while it runs
    cli_pc       \* main: "main", "process", "ingest", "extract", "exit" or "idle"

chunkVars == <<text, chunk_size, overlap, start, chunks, windows, pc>>
parseVars == <<response, yaml_text, parsed, parse_pc, fallback_used>>
mergeVars == <<results, merged, merge_i, merge_pc>>
extractVars == <<extracted_texts, extraction_types, doc_i, type_i, chunk_i,
                 type_results, run_results, collected, attempts, errors, calls,
                 format_errors, merges, run_pc>>
cliVars == <<fault, writable, processors, schema, files, file_i,
             output_written, exit_code, cli_pc>>
vars == <<chunkVars, parseVars, mergeVars, extractVars, cliVars>>

\* ---------------------------------------------------------------- bounds

\* Most special characters (period, newline, blank) placed in a text.
MaxMarks == 2
\* Most iterations of the while loop of chunk_text followed in one call.
MaxIter == 5
\* Most mappings in the list given to merge_yaml_results.
MaxResults == 3

\* Text lengths, the offsets at which special characters are placed, and the
\* (chunk_size, overlap) configurations, all with 0 <= overlap < chunk_size.
TextLens == {0, 2, 4, 204, 300}
MarkOffsets == {0, 1, 3, 4, 153, 202, 203, 299}
Configs == {<<3, 0>>, <<3, 1>>, <<203, 0>>, <<203, 5>>, <<203, 10>>, <<203, 203>>}

\* ------------------------------------------------------------ characters

Period == "."
Newline == "\n"
Blank == " "
Letter == "a"
Whitespace == {Blank, Newline}
Marks == {Period, Newline, Blank}

Max(a, b) == IF a >= b THEN a ELSE b
Min(a, b) == IF a <= b THEN a ELSE b

\* ------------------------------------------------- Python str primitives

\* Python's t[a:b] for integers a, b: negative offsets count from the end,
\* and both are clamped to 0..len(t).
SliceLo(t, a) == IF a < 0 THEN Max(a + Len(t), 0) ELSE Min(a, Len(t))
Slice(t, a, b) == SubSeq(t, SliceLo(t, a) + 1, SliceLo(t, b))

\* str.rfind(c): the highest offset of c in t, -1 when there is none.
rfind(t, c) ==
    LET hits == {i \in 1..Len(t) : t[i] = c}
    IN  IF hits = {} THEN -1
        ELSE (CHOOSE i \in hits : \A j \in hits : j <= i) - 1

\* The offsets of the first and one past the last non-whitespace character
\* of t (both 0 when there is none).
StripLo(t) ==
    LET solid == {i \in 1..Len(t) : t[i] \notin Whitespace}
    IN  IF solid = {} THEN 0
        ELSE (CHOOSE i \in solid : \A j \in solid : i <= j) - 1
StripHi(t) ==
    LET solid == {i \in 1..Len(t) : t[i] \notin Whitespace}
    IN  IF solid = {} THEN 0
        ELSE CHOOSE i \in solid : \A j \in solid : j <= i

\* str.strip(): t without its leading and trailing whitespace.
strip(t) == SubSeq(t, StripLo(t) + 1, StripHi(t))

\* ----------------------------------------------------------- chunk_text

\* The hard-coded "don't break too early" distance of chunk_text.
BreakGuard == 200

\* The end of the window that starts at s: the hard cutoff s + chunk_size,
\* or, when the window does not reach the end of the text and its last
\* period or newline lies beyond chunk_size - 200, one past that boundary.
break_point(t, s, size) ==
    LET chunk == Slice(t, s, s + size)
    IN  Max(rfind(chunk, Period), rfind(chunk, Newline))

\* The mutant takes the earlier of the two boundaries (min for max).
WindowEndEarlier(t, s, size) ==
    LET end == s + size
        chunk == Slice(t, s, s + size)
        bp == Min(rfind(chunk, Period), rfind(chunk, Newline))
    IN  IF end < Len(t) /\ bp > size - BreakGuard
        THEN s + bp + 1
        ELSE end
\* The mutant puts the hard cutoff one character further.
WindowEndPastCutoff(t, s, size) ==
    LET end == s + size + 1
        bp == break_point(t, s, size)
    IN  IF end < Len(t) /\ bp > size - BreakGuard
        THEN s + bp + 1
        ELSE end
WindowEnd(t, s, size) ==
    LET end == s + size
        bp == break_point(t, s, size)
    IN  IF end < Len(t) /\ bp > size - BreakGuard
        THEN s + bp + 1
        ELSE end

\* The result of the shortcut for a text no longer than chunk_size:
\* the mutant trims it, as the loop trims its chunks.
ShortResultTrimmed(t) == <<strip(t)>>
ShortResult(t) == <<t>>

\* chunk = text[start:end].strip(); if chunk: chunks.append(chunk)
\* The mutant appends without the test.
AppendChunkAlways(cs, t, s, end) == Append(cs, strip(Slice(t, s, end)))
AppendChunk(cs, t, s, end) ==
    LET chunk == strip(Slice(t, s, end))
    IN  IF chunk # <<>> THEN Append(cs, chunk) ELSE cs

\* Where the next window starts.
NextStart(t, end, ov) == IF end < Len(t) THEN end - ov ELSE Len(t)

\* The parser is not running.
ParseIdle ==
    /\ response = [shape |-> "none", body |-> <<>>, lines |-> <<>>]
    /\ yaml_text = <<>>
    /\ parsed = [k |-> "none", s |-> <<>>, l |-> <<>>, m |-> <<>>]
    /\ parse_pc = "idle"
    /\ fallback_used = FALSE

\* The merger is not running.
MergeIdle ==
    /\ results = <<>>
    /\ merged = <<>>
    /\ merge_i = 0
    /\ merge_pc = "idle"

\* extract_information is not running.
ExtractIdle ==
    /\ extracted_texts = <<>>
    /\ extraction_types = <<>>
    /\ doc_i = 0 /\ type_i = 0 /\ chunk_i = 0
    /\ type_results = <<>>
    /\ run_results = <<>>
    /\ collected = <<>>
    /\ attempts = 0 /\ errors = 0 /\ calls = 0 /\ format_errors = 0 /\ merges = 0
    /\ run_pc = "idle"

\* main is not running.
CliIdle ==
    /\ fault = "none"
    /\ writable = TRUE
    /\ processors = {}
    /\ schema = <<>>
    /\ files = <<>>
    /\ file_i = 0
    /\ output_written = FALSE
    /\ exit_code = -1
    /\ cli_pc = "idle"

\* The input texts: a run of letters with at most MaxMarks special
\* characters placed in it.
TextOf(n, marks) ==
    [i \in 1..n |-> IF (i - 1) \in DOMAIN marks THEN marks[i - 1] ELSE Letter]

MarkSets == {S \in SUBSET MarkOffsets : Cardinality(S) <= MaxMarks}

Texts ==
    UNION {UNION {{TextOf(n, m) : m \in [S -> Marks]} :
                  S \in {S \in MarkSets : \A o \in S : o < n}} :
           n \in TextLens}

ChunkInit ==
    /\ text \in Texts
    /\ \E c \in Configs : chunk_size = c[1] /\ overlap = c[2]
    /\ start = 0
    /\ chunks = <<>>
    /\ windows = <<>>
    /\ pc = "call"
    /\ ParseIdle
    /\ MergeIdle
    /\ ExtractIdle
    /\ CliIdle

\* if len(text) <= self.chunk_size: return [text]
ChunkShort ==
    /\ pc = "call"
    /\ Len(text) <= chunk_size
    /\ chunks' = ShortResult(text)
    /\ pc' = "done"
    /\ UNCHANGED <<text, chunk_size, overlap, start, windows, parseVars, mergeVars, extractVars, cliVars>>

\* chunks = []; start = 0
ChunkEnter ==
    /\ pc = "call"
    /\ Len(text) > chunk_size
    /\ chunks' = <<>>
    /\ start' = 0
    /\ pc' = "loop"
    /\ UNCHANGED <<text, chunk_size, overlap, windows, parseVars, mergeVars, extractVars, cliVars>>

\* One iteration of: while start < len(text)
ChunkIter ==
    /\ pc = "loop"
    /\ start < Len(text)
    /\ Len(windows) < MaxIter
    /\ LET end == WindowEnd(text, start, chunk_size)
       IN  /\ chunks' = AppendChunk(chunks, text, start, end)
           /\ windows' = Append(windows, <<start, end>>)
           /\ start' = NextStart(text, end, overlap)
    /\ UNCHANGED <<text, chunk_size, overlap, pc, parseVars, mergeVars, extractVars, cliVars>>

\* The loop condition fails: return chunks
ChunkReturn ==
    /\ pc = "loop"
    /\ start >= Len(text)
    /\ pc' = "done"
    /\ UNCHANGED <<text, chunk_size, overlap, start, chunks, windows, parseVars, mergeVars, extractVars, cliVars>>

ChunkNext == ChunkShort \/ ChunkEnter \/ ChunkIter \/ ChunkReturn

SpecChunk == ChunkInit /\ [][ChunkNext]_vars

\* ------------------------------------------------------ chunk_text: claims

\* The offsets of the text held by the chunk cut from window w (none when
\* the trimmed chunk is empty and dropped).
WindowSpan(w) ==
    LET lo == SliceLo(text, w[1])
        piece == Slice(text, w[1], w[2])
    IN  {lo + i : i \in StripLo(piece)..(StripHi(piece) - 1)}

\* The offsets of the text held by some returned chunk.
Covered ==
    IF Len(text) <= chunk_size
    THEN IF chunks = <<text>> THEN 0..(Len(text) - 1) ELSE {}
    ELSE UNION {WindowSpan(windows[k]) : k \in 1..Len(windows)}

\* C1: when chunk_text has returned, every character of the text lies in at
\* least one returned chunk, so the chunks laid over each other leave no gap.
\* Stated for the characters trimming cannot remove (the claim says it of
\* all characters, whitespace at a chunk's edge included).
C1_ChunkCoverage ==
    pc = "done" =>
        {i \in 0..(Len(text) - 1) : text[i + 1] \notin Whitespace}
            \subseteq Covered

\* C2: the window start strictly increases on every iteration of the loop.
C2_StartAdvances ==
    [][(pc = "loop" /\ pc' = "loop") => start' > start]_vars

\* C3: a text no longer than chunk_size comes back as exactly one chunk,
\* equal to the whole text, untrimmed.
C3_SingleChunk ==
    (pc = "done" /\ Len(text) <= chunk_size) => chunks = <<text>>

C3_Witness ==
    /\ pc = "done"
    /\ Len(text) <= chunk_size
    /\ Len(text) > 0
    /\ text[1] = Blank
    /\ chunks = <<text>>

\* C4 as claimed: no returned chunk is empty after trimming, whatever the
\* length of the text.
C4_NoEmptyChunk ==
    pc = "done" => \A k \in 1..Len(chunks) : strip(chunks[k]) # <<>>

\* C4 amended: for a text longer than chunk_size no chunk collected by the
\* loop is empty after trimming (a text no longer than chunk_size comes back
\* as it is, empty or blank included).
C4_NoEmptyChunkLong ==
    Len(text) > chunk_size =>
        \A k \in 1..Len(chunks) : strip(chunks[k]) # <<>>

\* A window whose trimmed chunk was empty has been dropped.
C4_Witness ==
    /\ pc = "done"
    /\ Len(text) > chunk_size
    /\ Len(chunks) >= 1
    /\ \E k \in 1..Len(windows) : WindowSpan(windows[k]) = {}

\* The first window of a text longer than chunk_size holds a period at
\* offset chunk_size - 50, and the first iteration has run.
C5_Case ==
    /\ chunk_size >= 50
    /\ Len(text) > chunk_size
    /\ text[chunk_size - 50 + 1] = Period
    /\ Len(windows) >= 1

\* The offset of the last period or newline among the first n characters.
LastBoundary(n) ==
    LET hits == {i \in 0..(n - 1) : text[i + 1] \in {Period, Newline}}
    IN  CHOOSE i \in hits : \A j \in hits : j <= i

\* C5 as claimed: the first chunk ends at or after that period and not at
\* the raw cutoff chunk_size.
C5_BoundaryNotCutoff ==
    C5_Case =>
        /\ windows[1][2] >= chunk_size - 50 + 1
        /\ windows[1][2] # chunk_size

\* C5 amended: the first chunk ends right after the last period or newline
\* of the first window, which is that period or a later boundary; this is
\* the raw cutoff only when the boundary is the window's last character.
C5_BoundaryPreferred ==
    C5_Case =>
        LET b == LastBoundary(chunk_size)
        IN  /\ b >= chunk_size - 50
            /\ windows[1] = <<0, b + 1>>
            /\ chunks[1] = strip(SubSeq(text, 1, b + 1))
            /\ (b + 1 = chunk_size <=> text[chunk_size] \in {Period, Newline})

C5_Witness ==
    /\ C5_Case
    /\ chunk_size > BreakGuard
    /\ windows[1] = <<0, chunk_size - 50 + 1>>
    /\ pc = "done"

\* C17: with overlap >= chunk_size the loop never goes on with a start
\* that stays equal or moves backwards (the call is refused or the overlap
\* clamped before).
C17_OverlapGuarded ==
    [][(pc = "loop" /\ overlap >= chunk_size /\ pc' = "loop")
          => start' > start]_vars

\* C18: a window that does not reach the end of the text ends right after
\* its last period or newline when that boundary lies no earlier than
\* chunk_size - 200 characters into the window, and at the hard cutoff
\* start + chunk_size when the boundary lies earlier or there is none.
C18_BoundaryRule ==
    \A k \in 1..Len(windows) :
        LET s == windows[k][1]
            e == windows[k][2]
            hits == {o \in 0..(chunk_size - 1) : text[s + o + 1] \in {Period, Newline}}
        IN  (s >= 0 /\ s + chunk_size < Len(text)) =>
                IF \E o \in hits : o >= chunk_size - BreakGuard
                THEN \E o \in hits : (\A h \in hits : h <= o) /\ e = s + o + 1
                ELSE e = s + chunk_size

\* C19: every window after the first starts exactly overlap characters
\* before the end of the window before it, at a position of the text, and
\* the last window of a returned call runs to the end of the text.
C19_WindowsChain ==
    /\ \A k \in 2..Len(windows) :
          /\ windows[k][1] = windows[k - 1][2] - overlap
          /\ SliceLo(text, windows[k][1]) = windows[k][1]
    /\ (pc = "done" /\ Len(text) > chunk_size) =>
          /\ windows # <<>>
          /\ windows[Len(windows)][2] >= Len(text)


\* Where the chunk of a window starts in the text: the low end of the
\* slice, moved past the whitespace that strip() removes.
ChunkOffsets ==
    {0} \cup {SliceLo(text, windows[k][1]) +
                 StripLo(Slice(text, windows[k][1], windows[k][2])) :
                 k \in 1..Len(windows)}

\* C28: with 0 <= overlap < max_size, every chunk collected has at most
\* max_size characters and is a contiguous substring of the text.
C28_ChunksBounded ==
    (0 <= overlap /\ overlap < chunk_size) =>
        \A k \in 1..Len(chunks) :
            /\ Len(chunks[k]) <= chunk_size
            /\ \E a \in ChunkOffsets :
                  /\ a + Len(chunks[k]) <= Len(text)
                  /\ chunks[k] = SubSeq(text, a + 1, a + Len(chunks[k]))

\* A text of 300 characters gave a first chunk of the full 203 characters
\* and a second one that starts inside the text.
C28_Witness ==
    /\ pc = "done"
    /\ Len(text) = 300
    /\ chunk_size = 203 /\ overlap = 10
    /\ Len(chunks) = 2
    /\ Len(chunks[1]) = 203
    /\ chunks[2] = SubSeq(text, 194, 300)

\* =====================================================================
\* YAMLProcessor.parse_yaml_from_text
\* =====================================================================

\* ------------------------------------------------------ the model replies

\* The backtick, which a TLA+ string cannot hold, is written as a caret.
Tick == "^"

\* Lines of a model reply, as character sequences.
LnOpenYaml == <<Tick, Tick, Tick, "y", "a", "m", "l">>
LnOpenYML == <<Tick, Tick, Tick, "Y", "M", "L", " ">>
LnOpenMid == <<"o", "k", ":", " ", Tick, Tick, Tick, "y", "m", "l">>
LnFence == <<Tick, Tick, Tick>>
LnKey == <<"f", "o", "o", ":">>
LnItemA == <<" ", " ", "-", " ", "a">>
LnItemB == <<" ", " ", "-", " ", "b">>
LnTopItemA == <<"-", " ", "a">>
LnTopItemB == <<"-", " ", "b">>
LnKeyVal == <<"f", "o", "o", ":", " ", "d">>
LnOtherKey == <<"x", ":">>
LnBadFlow == <<"f", "o", "o", ":", " ", "[", "a">>
LnProse == <<"a", "l", "l", " ", "d", "o", "n", "e">>
LnComment == <<"#", " ", "c">>
LnBlank == <<>>

\* The text of a sequence of lines: the lines joined by newlines.
RECURSIVE Join(_)
Join(lines) ==
    IF lines = <<>> THEN <<>>
    ELSE IF Len(lines) = 1 THEN lines[1]
    ELSE lines[1] \o <<Newline>> \o Join(Tail(lines))

\* Bodies whose structured parse is a mapping, another value or a failure.
BodyFooList == <<LnKey, LnItemA, LnItemB>>
BodyFooScalar == <<LnKeyVal>>
BodyFooNull == <<LnKey>>
BodyTwoKeys == <<LnOtherKey, LnItemB, LnKey, LnItemA>>
BodyProse == <<LnProse>>
BodySequence == <<LnTopItemA, LnTopItemB>>
BodyComment == <<LnComment>>
BodyBad == <<LnBadFlow, LnItemA>>

Bodies ==
    {BodyFooList, BodyFooScalar, BodyFooNull, BodyTwoKeys, BodyProse,
     BodySequence, BodyComment, BodyBad}
\* Bodies that start with a key line: after a line of prose they are a
\* parse failure.
KeyBodies == {BodyFooList, BodyFooScalar, BodyTwoKeys, BodyBad}

Openers == {LnOpenYaml, LnOpenYML, LnOpenMid}
Prefixes == {<<>>, <<LnProse>>}
Suffixes == {<<>>, <<LnProse>>, <<LnBlank>>}

\* One fenced block: opener, body, closing fence.
Block(open, body) == <<open>> \o body \o <<LnFence>>

\* The replies, by shape.  Every reply records how it was built:
\*   shape   "bare", "fenced", "empty", "untagged", "unclosed" or "two"
\*   body    the lines of its (first) fenced block, or of the bare reply
\*   lines   all its lines
BareReplies ==
    {[shape |-> "bare", body |-> b, lines |-> pad \o b \o pad] :
        b \in Bodies, pad \in {<<>>, <<LnBlank>>}} \cup
    {[shape |-> "bare", body |-> <<LnProse>> \o b, lines |-> <<LnProse>> \o b] :
        b \in KeyBodies}

FencedReplies ==
    {[shape |-> "fenced", body |-> b,
      lines |-> pre \o gap[1] \o Block(open, gap[2] \o b) \o suf] :
        b \in Bodies, open \in Openers, pre \in Prefixes, suf \in Suffixes,
        gap \in {<<<<>>, <<>>>>, <<<<LnFence>>, <<LnBlank>>>>}}

OtherReplies ==
    {[shape |-> "empty", body |-> <<>>, lines |-> <<open, LnFence>>] :
        open \in {LnOpenYaml, LnOpenYML}} \cup
    {[shape |-> "untagged", body |-> b, lines |-> Block(LnFence, b)] :
        b \in Bodies} \cup
    {[shape |-> "unclosed", body |-> b, lines |-> <<open>> \o b] :
        b \in Bodies, open \in {LnOpenYaml, LnOpenYML}} \cup
    {[shape |-> "two", body |-> b1,
      lines |-> pre \o Block(LnOpenYaml, b1) \o Block(LnOpenYML, b2)] :
        b1 \in Bodies, b2 \in {BodyFooList, BodyProse}, pre \in Prefixes}

Replies == BareReplies \cup FencedReplies \cup OtherReplies

\* ------------------------------------------------------- the fence search

\* The character at index i of t (1-based), "" outside t.
At(t, i) == IF i \in 1..Len(t) THEN t[i] ELSE ""

\* \s of the regular expression.
RegexSpace == {Blank, Newline}

\* ```ya?ml at index i, letters in either case: the index after the tag,
\* 0 when the tag is not there.
TagEnd(t, i) ==
    IF ~(At(t, i) = Tick /\ At(t, i + 1) = Tick /\ At(t, i + 2) = Tick
         /\ At(t, i + 3) \in {"y", "Y"})
    THEN 0
    ELSE IF At(t, i + 4) \in {"a", "A"}
    THEN IF At(t, i + 5) \in {"m", "M"} /\ At(t, i + 6) \in {"l", "L"}
         THEN i + 7 ELSE 0
    ELSE IF At(t, i + 4) \in {"m", "M"} /\ At(t, i + 5) \in {"l", "L"}
         THEN i + 6 ELSE 0

\* \s*\n after the tag that ends before p: the indexes at which group 1 can
\* start, each right after a newline reached from p through whitespace only.
GroupStarts(t, p) ==
    {j \in (p + 1)..(Len(t) + 1) :
        /\ t[j - 1] = Newline
        /\ \A x \in p..(j - 2) : t[x] \in RegexSpace}

\* \n``` : the indexes c >= j of a newline followed by three backticks.
Closers(t, j) ==
    {c \in j..Len(t) :
        /\ t[c] = Newline
        /\ At(t, c + 1) = Tick /\ At(t, c + 2) = Tick /\ At(t, c + 3) = Tick}

\* The match of ```ya?ml\s*\n(.*?)\n``` that starts at index i, as
\* <<first index of group 1, index of the closing newline>>; <<0, 0>> when
\* there is none.  \s* is greedy (the last possible start), .*? is lazy
\* (the first closer from there).
\* The mutant takes the last closer (.* for .*?).
MatchAtGreedy(t, i) ==
    LET p == TagEnd(t, i)
        js == IF p = 0 THEN {} ELSE {j \in GroupStarts(t, p) : Closers(t, j) # {}}
    IN  IF js = {} THEN <<0, 0>>
        ELSE LET j == CHOOSE j \in js : \A k \in js : k <= j
                 cs == Closers(t, j)
             IN  <<j, CHOOSE c \in cs : \A d \in cs : d <= c>>
MatchAt(t, i) ==
    LET p == TagEnd(t, i)
        js == IF p = 0 THEN {} ELSE {j \in GroupStarts(t, p) : Closers(t, j) # {}}
    IN  IF js = {} THEN <<0, 0>>
        ELSE LET j == CHOOSE j \in js : \A k \in js : k <= j
                 cs == Closers(t, j)
             IN  <<j, CHOOSE c \in cs : \A d \in cs : c <= d>>

\* re.search: the match at the leftmost index that has one.
FenceSearch(t) ==
    LET is == {i \in 1..Len(t) : MatchAt(t, i) # <<0, 0>>}
    IN  IF is = {} THEN <<0, 0>>
        ELSE MatchAt(t, CHOOSE i \in is : \A k \in is : i <= k)

\* yaml_text: group 1 of the match, else text.strip().
YamlText(t) ==
    LET m == FenceSearch(t)
    IN  IF m # <<0, 0>> THEN SubSeq(t, m[1], m[2] - 1) ELSE strip(t)

\* ------------------------------------------------------- Python values

\* A value of the parsed reply.  k is its type; s the text of a str, l the
\* elements of a list, m the entries of a dict in insertion order.  A list
\* element is [k, s]; the value of a dict entry is [k, s, l].
PyNone == [k |-> "null", s |-> <<>>, l |-> <<>>, m |-> <<>>]
PyStr(s) == [k |-> "str", s |-> s, l |-> <<>>, m |-> <<>>]
PyList(l) == [k |-> "list", s |-> <<>>, l |-> l, m |-> <<>>]
PyDict(m) == [k |-> "map", s |-> <<>>, l |-> <<>>, m |-> m]
\* yaml.YAMLError raised by yaml.safe_load.
YamlError == [k |-> "error", s |-> <<>>, l |-> <<>>, m |-> <<>>]
\* A document outside the block subset modelled here (never produced by
\* the replies of the model, see ParseModelled).
Beyond == [k |-> "beyond", s |-> <<>>, l |-> <<>>, m |-> <<>>]

EntryNone == [k |-> "null", s |-> <<>>, l |-> <<>>]
EntryStr(s) == [k |-> "str", s |-> s, l |-> <<>>]
EntryList(l) == [k |-> "list", s |-> <<>>, l |-> l]
\* A nested dict as the value of an entry or as a list element: s is a
\* label of its content, empty for {}.
EntryDict(s) == [k |-> "map", s |-> s, l |-> <<>>]
ItemStr(s) == [k |-> "str", s |-> s]
ItemNone == [k |-> "null", s |-> <<>>]

\* Python truth of a value: None, "", [] and {} are false.
Truthy(v) ==
    CASE v.k = "null" -> FALSE
      [] v.k = "str" -> v.s # <<>>
      [] v.k = "list" -> v.l # <<>>
      [] v.k = "map" -> v.m # <<>>
      [] OTHER -> TRUE

\* d[key] = val on a dict kept as a sequence of entries: a key already
\* there keeps its place and takes the new value.
DictKeys(m) == {m[i].key : i \in 1..Len(m)}
DictSet(m, key, val) ==
    IF key \in DictKeys(m)
    THEN [i \in 1..Len(m) |->
            IF m[i].key = key THEN [key |-> key, val |-> val] ELSE m[i]]
    ELSE Append(m, [key |-> key, val |-> val])
DictGet(m, key) ==
    (CHOOSE e \in {m[i] : i \in 1..Len(m)} : e.key = key).val

\* --------------------------------------------------------- yaml.safe_load
\* The block subset of YAML that the replies use: comments, one plain
\* scalar, a block sequence of plain scalars, and a block mapping whose
\* values are empty, a plain scalar or a block sequence of plain scalars.

\* str.split('\n')
RECURSIVE SplitLines(_)
SplitLines(t) ==
    LET nl == {i \in 1..Len(t) : t[i] = Newline}
    IN  IF nl = {} THEN <<t>>
        ELSE LET i == CHOOSE i \in nl : \A j \in nl : i <= j
             IN  <<SubSeq(t, 1, i - 1)>> \o SplitLines(SubSeq(t, i + 1, Len(t)))

LineText(ln) == strip(ln)
LineIndent(ln) == IF strip(ln) = <<>> THEN Len(ln) ELSE StripLo(ln)
IsBlankLine(ln) == LineText(ln) = <<>>
IsCommentLine(ln) == At(LineText(ln), 1) = "#"

\* The index of the first ':' of c that is followed by a blank or ends c
\* (the mapping value indicator), 0 when there is none.
ColonAt(c) ==
    LET hits == {i \in 1..Len(c) : c[i] = ":" /\ At(c, i + 1) \in {"", Blank}}
    IN  IF hits = {} THEN 0 ELSE CHOOSE i \in hits : \A j \in hits : i <= j

\* Characters that cannot start a plain scalar.
Indicators == {Tick, "[", "]", "{", "}", ",", "#", "&", "*", "!", "|", ">", "%", "@"}

\* c is read as one plain scalar of type str on one line.
PlainOK(c) ==
    /\ c # <<>>
    /\ c[1] \notin Indicators
    /\ ~(c[1] = "-" /\ At(c, 2) \in {"", Blank})
    /\ ColonAt(c) = 0
    /\ \A i \in 2..Len(c) : ~(c[i] = "#" /\ c[i - 1] = Blank)

ItemText(ln) == LET c == LineText(ln) IN strip(SubSeq(c, 2, Len(c)))
KeyText(ln) == LET c == LineText(ln) IN SubSeq(c, 1, ColonAt(c) - 1)
ValueText(ln) == LET c == LineText(ln) IN strip(SubSeq(c, ColonAt(c) + 1, Len(c)))

\* What a line is when a new token starts at it.
LineKind(ln) ==
    LET c == LineText(ln)
    IN  IF c[1] \in Indicators THEN "bad"
        ELSE IF c[1] = "-" /\ At(c, 2) \in {"", Blank}
        THEN IF ItemText(ln) = <<>> \/ PlainOK(ItemText(ln)) THEN "item" ELSE "beyond"
        ELSE IF ColonAt(c) = 0 THEN "plain"
        ELSE IF ~PlainOK(KeyText(ln)) THEN "beyond"
        ELSE IF ValueText(ln) = <<>> THEN "key"
        ELSE IF PlainOK(ValueText(ln)) THEN "keyval"
        ELSE IF ValueText(ln)[1] \in Indicators \/ ColonAt(ValueText(ln)) # 0 THEN "bad"
        ELSE "beyond"

ItemOf(ln) == IF ItemText(ln) = <<>> THEN ItemNone ELSE ItemStr(ItemText(ln))

\* The number of lines at the head of ls that are sequence entries.
RECURSIVE ItemRun(_)
ItemRun(ls) ==
    IF ls # <<>> /\ LineKind(ls[1]) = "item" THEN 1 + ItemRun(Tail(ls)) ELSE 0

\* The lines of several plain-scalar lines folded into one text.
RECURSIVE Fold(_)
Fold(ls) ==
    IF Len(ls) = 1 THEN LineText(ls[1])
    ELSE LineText(ls[1]) \o <<Blank>> \o Fold(Tail(ls))

\* A block mapping at indent i0: the entries m read so far, the lines ls
\* (comments and blank lines removed) still to read.
RECURSIVE LoadMapping(_, _, _)
LoadMapping(ls, i0, m) ==
    IF ls = <<>> THEN PyDict(m)
    ELSE
        LET ln == ls[1]
            kind == LineKind(ln)
            n == ItemRun(Tail(ls))
            items == SubSeq(ls, 2, n + 1)
        IN  IF kind = "bad" THEN YamlError
            ELSE IF kind = "beyond" \/ LineIndent(ln) # i0 THEN Beyond
            ELSE IF kind = "keyval"
            THEN LoadMapping(Tail(ls), i0, DictSet(m, KeyText(ln), EntryStr(ValueText(ln))))
            ELSE IF kind = "key" /\ n = 0
            THEN LoadMapping(Tail(ls), i0, DictSet(m, KeyText(ln), EntryNone))
            ELSE IF kind = "key"
            THEN IF \A i \in 1..n : LineIndent(items[i]) = LineIndent(items[1])
                                    /\ LineIndent(items[i]) >= i0
                 THEN LoadMapping(SubSeq(ls, n + 2, Len(ls)), i0,
                        DictSet(m, KeyText(ln),
                                EntryList([i \in 1..n |-> ItemOf(items[i])])))
                 ELSE Beyond
            ELSE YamlError   \* a plain scalar or a sequence entry where a key is expected

\* A block sequence of plain scalars.
LoadSequence(ls) ==
    IF \A i \in 1..Len(ls) : LineKind(ls[i]) = "item"
                             /\ LineIndent(ls[i]) = LineIndent(ls[1])
    THEN PyList([i \in 1..Len(ls) |-> ItemOf(ls[i])])
    ELSE IF \E i \in 1..Len(ls) : LineKind(ls[i]) = "bad" THEN YamlError
    ELSE Beyond

\* A plain scalar that starts at the first of the lines all and is folded
\* over the lines that follow it, up to the first comment line: a ':'
\* indicator in a folded line, or content after the comment, is a YAMLError.
LoadPlain(all) ==
    LET cm == {i \in 1..Len(all) : IsCommentLine(all[i])}
        k == IF cm = {} THEN Len(all) + 1 ELSE CHOOSE i \in cm : \A j \in cm : i <= j
        solid == {i \in 1..(k - 1) : ~IsBlankLine(all[i])}
        last == CHOOSE i \in solid : \A j \in solid : j <= i
    IN  IF \E i \in solid : ColonAt(LineText(all[i])) # 0 THEN YamlError
        ELSE IF \E i \in k..Len(all) : ~IsCommentLine(all[i]) /\ ~IsBlankLine(all[i])
        THEN YamlError
        ELSE IF \E i \in 1..last : IsBlankLine(all[i]) THEN Beyond
        ELSE PyStr(Fold(SubSeq(all, 1, last)))

\* yaml.safe_load(t): the value, or YamlError.
safe_load(t) ==
    LET all == SplitLines(t)
        content == {i \in 1..Len(all) : ~IsBlankLine(all[i]) /\ ~IsCommentLine(all[i])}
        first == CHOOSE i \in content : \A j \in content : i <= j
        ls == SelectSeq(all, LAMBDA ln : ~IsBlankLine(ln) /\ ~IsCommentLine(ln))
    IN  IF content = {} THEN PyNone
        ELSE LET kind == LineKind(all[first])
             IN  CASE kind = "bad" -> YamlError
                   [] kind = "beyond" -> Beyond
                   [] kind = "plain" -> LoadPlain(SubSeq(all, first, Len(all)))
                   [] kind = "item" -> LoadSequence(ls)
                   [] OTHER -> LoadMapping(ls, LineIndent(ls[1]), <<>>)

\* ------------------------------------------- _extract_structured_data

\* \w of the regular expression, over the characters the replies use
\* (letters and the punctuation listed here).
IsWordChar(c) == c \notin {"", Blank, Newline, Tick, ":", "-", "#", "[", Period}

\* (?=\w+:) at index j: a run of word characters from j, then a colon.
WordColonAt(t, j) ==
    \E n \in (j + 1)..Len(t) :
        /\ t[n] = ":"
        /\ \A x \in j..(n - 1) : IsWordChar(t[x])

\* re.split(r'\n(?=\w+:)', text): the pieces between the newlines that are
\* followed by a word and a colon.
SplitPoints(t) == {i \in 1..Len(t) : t[i] = Newline /\ WordColonAt(t, i + 1)}
SplitPoint(t, k) ==
    IF k = 0 THEN 0
    ELSE IF k > Cardinality(SplitPoints(t)) THEN Len(t) + 1
    ELSE CHOOSE i \in SplitPoints(t) :
            Cardinality({j \in SplitPoints(t) : j < i}) = k - 1
Sections(t) ==
    [k \in 1..(Cardinality(SplitPoints(t)) + 1) |->
        SubSeq(t, SplitPoint(t, k - 1) + 1, SplitPoint(t, k) - 1)]

\* header = lines[0].replace(':', '').strip()
SectionHeader(lines) == strip(SelectSeq(lines[1], LAMBDA c : c # ":"))

\* content, were the comment lines kept.
SectionContentWithComments(lines) ==
    LET kept == SelectSeq(Tail(lines), LAMBDA ln : strip(ln) # <<>>)
    IN  [i \in 1..Len(kept) |-> ItemStr(strip(kept[i]))]

\* content: the lines after the header, trimmed, that are neither empty nor
\* comments.
SectionContent(lines) ==
    LET kept == SelectSeq(Tail(lines),
                    LAMBDA ln : strip(ln) # <<>> /\ strip(ln)[1] # "#")
    IN  [i \in 1..Len(kept) |-> ItemStr(strip(kept[i]))]

\* The loop over the sections: result after the sections secs, from result m.
RECURSIVE ExtractSections(_, _)
ExtractSections(secs, m) ==
    IF secs = <<>> THEN m
    ELSE
        LET section == secs[1]
            lines == SplitLines(strip(section))
            content == SectionContent(lines)
        IN  IF (\E i \in 1..Len(section) : section[i] = ":") /\ content # <<>>
            THEN ExtractSections(Tail(secs),
                    DictSet(m, SectionHeader(lines), EntryList(content)))
            ELSE ExtractSections(Tail(secs), m)

extract_structured_data(t) == PyDict(ExtractSections(Sections(t), <<>>))

\* ------------------------------------------------- parse_yaml_from_text

\* except yaml.YAMLError: the handler is entered only when safe_load raised.
RaisesOrFalsy(loaded) == loaded = YamlError \/ ~Truthy(loaded)
Raises(loaded) == loaded = YamlError

\* yaml.safe_load(yaml_text) or {}
LoadedOrEmpty(loaded) == IF Truthy(loaded) THEN loaded ELSE PyDict(<<>>)

\* The whole function, for its callers.
parse_yaml_from_text(t) ==
    LET loaded == safe_load(YamlText(t))
    IN  IF Raises(loaded) THEN extract_structured_data(t)
        ELSE LoadedOrEmpty(loaded)

ParseInit ==
    /\ response \in Replies
    /\ yaml_text = <<>>
    /\ parsed = [k |-> "none", s |-> <<>>, l |-> <<>>, m |-> <<>>]
    /\ parse_pc = "call"
    /\ fallback_used = FALSE
    /\ text = <<>> /\ chunk_size = 0 /\ overlap = 0 /\ start = 0
    /\ chunks = <<>> /\ windows = <<>> /\ pc = "idle"
    /\ MergeIdle
    /\ ExtractIdle
    /\ CliIdle

\* yaml_match = re.search(...); yaml_text = group 1, or text.strip()
ParseSearch ==
    /\ parse_pc = "call"
    /\ yaml_text' = YamlText(Join(response.lines))
    /\ parse_pc' = "load"
    /\ UNCHANGED <<response, parsed, fallback_used, chunkVars, mergeVars, extractVars, cliVars>>

\* try: return yaml.safe_load(yaml_text) or {}
ParseLoad ==
    /\ parse_pc = "load"
    /\ ~Raises(safe_load(yaml_text))
    /\ parsed' = LoadedOrEmpty(safe_load(yaml_text))
    /\ parse_pc' = "done"
    /\ UNCHANGED <<response, yaml_text, fallback_used, chunkVars, mergeVars, extractVars, cliVars>>

\* except yaml.YAMLError: return YAMLProcessor._extract_structured_data(text)
ParseFallback ==
    /\ parse_pc = "load"
    /\ Raises(safe_load(yaml_text))
    /\ parsed' = extract_structured_data(Join(response.lines))
    /\ fallback_used' = TRUE
    /\ parse_pc' = "done"
    /\ UNCHANGED <<response, yaml_text, chunkVars, mergeVars, extractVars, cliVars>>

ParseNext == ParseSearch \/ ParseLoad \/ ParseFallback

SpecParse == ParseInit /\ [][ParseNext]_vars

\* Every reply of the model is inside the YAML subset modelled.
ParseModelled == parse_pc = "load" => safe_load(yaml_text) # Beyond

\* ------------------------------------------ parse_yaml_from_text: claims

\* C6: parse_yaml_from_text returns a mapping for every reply (the empty
\* mapping when structured parsing gives null, a scalar or a sequence).
C6_ReturnsMapping == parse_pc = "done" => parsed.k = "map"

\* {foo: [a, b]}
FooListDict ==
    PyDict(<<[key |-> <<"f", "o", "o">>,
              val |-> EntryList(<<ItemStr(<<"a">>), ItemStr(<<"b">>)>>)]>>)

\* The lines hold a fenced block tagged yaml or yml whose content is body.
ContainsBlock(lines, body) ==
    \E i \in 1..Len(lines) :
        /\ lines[i] \in Openers
        /\ i + Len(body) + 1 <= Len(lines)
        /\ SubSeq(lines, i + 1, i + Len(body)) = body
        /\ lines[i + Len(body) + 1] = LnFence

\* C7 as claimed: a reply that contains a fenced block holding the list
\* a, b under key foo parses to {foo: [a, b]}, whatever surrounds the block.
C7_FencedBlockParsed ==
    (parse_pc = "done" /\ ContainsBlock(response.lines, BodyFooList))
        => parsed = FooListDict

\* C7 amended: structured parsing is applied to the content of the first
\* fenced block tagged yaml or yml only, so a reply whose first such block
\* holds the list a, b under key foo parses to {foo: [a, b]} whatever
\* surrounds it; a reply in which the pattern finds no such block (no tag,
\* no closing fence, nothing between the fences) is parsed whole, trimmed.
C7_FirstFencedContent ==
    parse_pc \in {"load", "done"} =>
        /\ response.shape \in {"fenced", "two"}
            => /\ yaml_text = Join(response.body)
               /\ (parse_pc = "done" /\ response.body = BodyFooList)
                    => parsed = FooListDict
        /\ response.shape \in {"bare", "empty", "untagged", "unclosed"}
            => yaml_text = strip(Join(response.lines))

\* A reply of two fenced blocks, the first holding the list, after prose.
C7_Witness ==
    /\ parse_pc = "done"
    /\ response.shape = "two"
    /\ response.body = BodyFooList
    /\ response.lines[1] = LnProse
    /\ ContainsBlock(response.lines, BodyProse)
    /\ parsed = FooListDict

\* C20: the heuristic fallback is used if and only if yaml.safe_load of
\* the parser body raises a parse error; when safe_load returns, also with
\* None or an empty value, the fallback is not used and the empty mapping
\* stands for the falsy value.
C20_FallbackIffParseError ==
    parse_pc = "done" =>
        /\ fallback_used <=> (safe_load(yaml_text) = YamlError)
        /\ fallback_used => parsed = extract_structured_data(Join(response.lines))
        /\ (safe_load(yaml_text) # YamlError /\ ~Truthy(safe_load(yaml_text)))
              => (~fallback_used /\ parsed = PyDict(<<>>))

\* A fenced reply whose body is not YAML went through the fallback.
C20_Witness ==
    /\ parse_pc = "done"
    /\ response.shape = "fenced"
    /\ response.body = BodyBad
    /\ safe_load(yaml_text) = YamlError
    /\ fallback_used

\* A reply whose body holds only a comment loads as None: no fallback.
C20_NullLoaded ==
    /\ parse_pc = "done"
    /\ response.body = BodyComment
    /\ safe_load(yaml_text) = PyNone
    /\ ~fallback_used

\* The text of a header line before its first colon, trimmed.
BeforeFirstColon(line) ==
    LET hits == {i \in 1..Len(line) : line[i] = ":"}
    IN  IF hits = {} THEN strip(line)
        ELSE strip(SubSeq(line, 1, (CHOOSE i \in hits : \A j \in hits : i <= j) - 1))

\* The header lines of the sections of t that hold a colon.
HeaderLines(t) ==
    {SplitLines(strip(Sections(t)[k]))[1] :
        k \in {k \in 1..Len(Sections(t)) :
                  \E i \in 1..Len(Sections(t)[k]) : Sections(t)[k][i] = ":"}}

\* C21: in the fallback the key of each section is the text of its header
\* line before the first colon, trimmed; text after the first colon of the
\* header line is not part of the key.
C21_KeyBeforeFirstColon ==
    (parse_pc = "done" /\ fallback_used) =>
        \A key \in DictKeys(parsed.m) :
            \E h \in HeaderLines(Join(response.lines)) : key = BeforeFirstColon(h)

\* A result of the fallback as C22 describes it, for the text t.
FallbackWellFormed(t, d) ==
    /\ d.k = "map"
    /\ \A i \in 1..Len(d.m) :
          LET v == d.m[i].val
          IN  /\ v.k = "list"
              /\ v.l # <<>>
              /\ \A j \in 1..Len(v.l) :
                    /\ v.l[j].k = "str"
                    /\ v.l[j].s # <<>>
                    /\ strip(v.l[j].s) = v.l[j].s
                    /\ v.l[j].s[1] # "#"
    /\ Len(d.m) <=
          Cardinality({k \in 1..Len(Sections(t)) :
              \E n \in 2..Len(SplitLines(strip(Sections(t)[k]))) :
                  LET ln == strip(SplitLines(strip(Sections(t)[k]))[n])
                  IN  ln # <<>> /\ ln[1] # "#"})

\* C22: the fallback returns, for every reply (also one it is not called
\* for), a mapping in which every value is a non-empty list of trimmed,
\* non-empty lines that do not start with '#'; a section without such a
\* content line produces no key.
C22_FallbackValues ==
    /\ FallbackWellFormed(Join(response.lines),
                          extract_structured_data(Join(response.lines)))
    /\ (parse_pc = "done" /\ fallback_used) =>
          FallbackWellFormed(Join(response.lines), parsed)

\* The fallback ran on a reply with a section that has content and on one
\* whose only section has none.
C22_Witness ==
    /\ parse_pc = "done"
    /\ fallback_used
    /\ response.shape = "fenced"
    /\ response.body = BodyBad
    /\ parsed.m # <<>>
    /\ \E k \in 1..Len(Sections(Join(response.lines))) :
          SectionContent(SplitLines(strip(Sections(Join(response.lines))[k]))) = <<>>

\* =====================================================================
\* YAMLProcessor.merge_yaml_results
\* =====================================================================

\* Python truth of the value of an entry, for a value that is not a list.
EntryTruthy(v) ==
    CASE v.k = "null" -> FALSE
      [] v.k = "str" -> v.s # <<>>
      [] v.k = "map" -> v.s # <<>>
      [] OTHER -> TRUE

\* The value v as one list element.
AsItem(v) == [k |-> v.k, s |-> v.s]

\* merged[key].extend(value) for a list, merged[key].append(value) for
\* another truthy value, nothing otherwise: what is added to the list.
\* The mutant appends a list as one element (append for extend).
AddedAppended(v) ==
    IF v.k = "list" THEN <<AsItem(v)>>
    ELSE IF EntryTruthy(v) THEN <<AsItem(v)>>
    ELSE <<>>
Added(v) ==
    IF v.k = "list" THEN v.l
    ELSE IF EntryTruthy(v) THEN <<AsItem(v)>>
    ELSE <<>>

\* The body of the inner loop for one (key, value) of a result.
\* Mutant 1 adds only the elements the list does not hold yet.
\* Mutant 2 creates the key only when something is added.
MergeEntryDedup(m, key, v) ==
    LET m1 == IF key \in DictKeys(m) THEN m
              ELSE Append(m, [key |-> key, val |-> <<>>])
    IN  [i \in 1..Len(m1) |->
            IF m1[i].key = key
            THEN [key |-> key,
                  val |-> m1[i].val \o
                      SelectSeq(Added(v),
                          LAMBDA e : \A j \in 1..Len(m1[i].val) : m1[i].val[j] # e)]
            ELSE m1[i]]
MergeEntryLazyKey(m, key, v) ==
    LET m1 == IF key \in DictKeys(m) \/ Added(v) = <<>> THEN m
              ELSE Append(m, [key |-> key, val |-> <<>>])
    IN  [i \in 1..Len(m1) |->
            IF m1[i].key = key
            THEN [key |-> key, val |-> m1[i].val \o Added(v)]
            ELSE m1[i]]
MergeEntry(m, key, v) ==
    LET m1 == IF key \in DictKeys(m) THEN m
              ELSE Append(m, [key |-> key, val |-> <<>>])
    IN  [i \in 1..Len(m1) |->
            IF m1[i].key = key
            THEN [key |-> key, val |-> m1[i].val \o Added(v)]
            ELSE m1[i]]

\* for key, value in result.items(): ...
RECURSIVE MergeEntries(_, _)
MergeEntries(m, entries) ==
    IF entries = <<>> THEN m
    ELSE MergeEntries(MergeEntry(m, entries[1].key, entries[1].val), Tail(entries))

\* One iteration of the outer loop: a result that is no dict is skipped.
MergeResult(m, result) ==
    IF result.k # "map" THEN m ELSE MergeEntries(m, result.m)

\* The whole function, for its callers.
RECURSIVE MergeFrom(_, _)
MergeFrom(m, rs) ==
    IF rs = <<>> THEN m ELSE MergeFrom(MergeResult(m, rs[1]), Tail(rs))
merge_yaml_results(rs) == MergeFrom(<<>>, rs)

\* The inputs: dicts over the keys x and y whose values are lists, scalars
\* and empty values, and one result that is no dict.
KeyX == <<"x">>
KeyY == <<"y">>
ItemA == ItemStr(<<"a">>)
ItemB == ItemStr(<<"b">>)
ItemC == ItemStr(<<"c">>)
MergeValues ==
    {EntryList(<<ItemA>>), EntryList(<<ItemB, ItemC>>), EntryStr(<<"d">>),
     EntryList(<<>>), EntryStr(<<>>), EntryNone,
     EntryDict(<<"n">>), EntryDict(<<>>)}
MergeInputs ==
    {PyDict(<<[key |-> KeyX, val |-> v]>>) : v \in MergeValues} \cup
    {PyDict(<<[key |-> KeyY, val |-> v]>>) : v \in {EntryList(<<ItemA>>), EntryNone}} \cup
    {PyDict(<<[key |-> KeyY, val |-> EntryStr(<<"d">>)],
              [key |-> KeyX, val |-> EntryList(<<ItemNone, ItemA>>)]>>),
     PyDict(<<>>),
     PyList(<<ItemA>>)}

MergeInit ==
    /\ results \in UNION {[1..n -> MergeInputs] : n \in 0..MaxResults}
    /\ merged = <<>>
    /\ merge_i = 0
    /\ merge_pc = "loop"
    /\ text = <<>> /\ chunk_size = 0 /\ overlap = 0 /\ start = 0
    /\ chunks = <<>> /\ windows = <<>> /\ pc = "idle"
    /\ ParseIdle
    /\ ExtractIdle
    /\ CliIdle

\* for result in results: one iteration
MergeStep ==
    /\ merge_pc = "loop"
    /\ merge_i < Len(results)
    /\ merged' = MergeResult(merged, results[merge_i + 1])
    /\ merge_i' = merge_i + 1
    /\ UNCHANGED <<results, merge_pc, chunkVars, parseVars, extractVars, cliVars>>

\* return merged
MergeReturn ==
    /\ merge_pc = "loop"
    /\ merge_i = Len(results)
    /\ merge_pc' = "done"
    /\ UNCHANGED <<results, merged, merge_i, chunkVars, parseVars, extractVars, cliVars>>

MergeNext == MergeStep \/ MergeReturn

SpecMerge == MergeInit /\ [][MergeNext]_vars

\* --------------------------------------------- merge_yaml_results: claims

\* What the value v is to contribute: its elements if it is a sequence,
\* itself if it is another non-empty value, nothing if it is empty.
Contribution(v) ==
    CASE v.k = "list" -> v.l
      [] v.k = "null" -> <<>>
      [] v.k \in {"str", "map"} /\ v.s = <<>> -> <<>>
      [] OTHER -> <<[k |-> v.k, s |-> v.s]>>

\* The concatenation, over the dicts of rs in order, of the contributions
\* of their values for key.
RECURSIVE Concatenation(_, _)
Concatenation(rs, key) ==
    IF rs = <<>> THEN <<>>
    ELSE LET r == rs[1]
             here == IF r.k = "map" /\ key \in DictKeys(r.m)
                     THEN Contribution(DictGet(r.m, key)) ELSE <<>>
         IN  here \o Concatenation(Tail(rs), key)

\* The keys of the dicts of rs.
InputKeys(rs) ==
    UNION {DictKeys(rs[i].m) : i \in {i \in 1..Len(rs) : rs[i].k = "map"}}

\* C8: for each key the merged list is the in-order concatenation of the
\* contributions of the inputs, nothing deduplicated or reordered; merging
\* [{x: [a]}, {x: [b, c]}, {x: d}] gives {x: [a, b, c, d]}.
C8_MergeConcatenates ==
    merge_pc = "done" =>
        /\ \A i \in 1..Len(merged) :
              merged[i].val = Concatenation(results, merged[i].key)
        /\ results = <<PyDict(<<[key |-> KeyX, val |-> EntryList(<<ItemA>>)]>>),
                       PyDict(<<[key |-> KeyX, val |-> EntryList(<<ItemB, ItemC>>)]>>),
                       PyDict(<<[key |-> KeyX, val |-> EntryStr(<<"d">>)]>>)>>
              => merged = <<[key |-> KeyX,
                             val |-> <<ItemA, ItemB, ItemC, ItemStr(<<"d">>)>>]>>

\* The same list given twice is kept twice.
C8_Witness ==
    /\ merge_pc = "done"
    /\ Len(results) = 3
    /\ results[1] = results[3]
    /\ merged = <<[key |-> KeyX, val |-> <<ItemB, ItemC, ItemStr(<<"d">>), ItemB, ItemC>>]>>

\* C9: the keys of the output are exactly the keys of the inputs, one entry
\* each; a key whose values are all empty has the empty list.
C9_KeysKept ==
    merge_pc = "done" =>
        /\ DictKeys(merged) = InputKeys(results)
        /\ Cardinality(DictKeys(merged)) = Len(merged)
        /\ \A i \in 1..Len(merged) :
              (\A j \in 1..Len(results) :
                  (results[j].k = "map" /\ merged[i].key \in DictKeys(results[j].m))
                      => DictGet(results[j].m, merged[i].key) \in
                            {EntryList(<<>>), EntryStr(<<>>), EntryNone, EntryDict(<<>>)})
                  => merged[i].val = <<>>

\* [{x: []}, {x: ""}, {x: None}] gives {x: []}.
C9_Witness ==
    /\ merge_pc = "done"
    /\ results = <<PyDict(<<[key |-> KeyX, val |-> EntryList(<<>>)]>>),
                   PyDict(<<[key |-> KeyX, val |-> EntryStr(<<>>)]>>),
                   PyDict(<<[key |-> KeyX, val |-> EntryNone]>>)>>
    /\ merged = <<[key |-> KeyX, val |-> <<>>]>>

\* An item of a merged sequence that is empty: None, "" or {}.
EmptyItem(it) == it.k = "null" \/ (it.k \in {"str", "map"} /\ it.s = <<>>)

\* C27: the sequence merged for a key is made of non-empty items only: no
\* empty item contributed by a reply is in it.
C27_NoEmptyItem ==
    merge_pc = "done" =>
        \A i \in 1..Len(merged) :
            \A j \in 1..Len(merged[i].val) : ~EmptyItem(merged[i].val[j])

\* =====================================================================
\* DocumentRAGExtractor.extract_information
\* =====================================================================

\* How many documents a run ingests at most.
MaxDocs == 2

\* processing_config.get('min_chunk_length', 50)
min_chunk_length == 50

\* The TextProcessor of the run: chunk_size and overlap.
RunConfig == <<203, 10>>

\* chunk_text as one call, for its callers.  The loop is cut after MaxIter
\* windows; the documents of a run need two.
RECURSIVE ChunkLoop(_, _, _, _, _, _)
ChunkLoop(t, s, cs, size, ov, fuel) ==
    IF s >= Len(t) \/ fuel = 0 THEN cs
    ELSE LET end == WindowEnd(t, s, size)
         IN  ChunkLoop(t, NextStart(t, end, ov), AppendChunk(cs, t, s, end),
                       size, ov, fuel - 1)
chunk_text(t, size, ov) ==
    IF Len(t) <= size THEN ShortResult(t)
    ELSE ChunkLoop(t, 0, <<>>, size, ov, MaxIter)

\* The documents: 204 characters with one period.  Under RunConfig the
\* first gives chunks of 154 and 60 characters, the second chunks of 203
\* and 11 characters, the last of which is below min_chunk_length.
DocTwoChunks == TextOf(204, [o \in {153} |-> Period])
DocShortTail == TextOf(204, [o \in {202} |-> Period])
DocTexts == {DocTwoChunks, DocShortTail}

\* The documents of a run: at most MaxDocs, at most one of them with two
\* chunks that reach min_chunk_length.
DocLists ==
    {ds \in UNION {[1..n -> DocTexts] : n \in 0..MaxDocs} :
        Cardinality({i \in DOMAIN ds : ds[i] = DocTwoChunks}) <= 1}

\* The key of the run metadata in the results.
MetaKey ==
    <<"e", "x", "t", "r", "a", "c", "t", "i", "o", "n", "_",
      "m", "e", "t", "a", "d", "a", "t", "a">>

\* The categories of the extraction schema: any keys, also the one of the
\* run metadata.
KeyFoo == <<"f", "o", "o">>
TypeLists == {<<KeyFoo>>, <<KeyFoo, KeyX>>, <<KeyFoo, MetaKey>>}

\* What self.llm.generate returns: a fenced list under foo, a scalar under
\* foo, foo without a value, a mapping with the keys x and foo, and prose.
ReplyFencedList == Block(LnOpenYaml, BodyFooList)
ReplyScalar == BodyFooScalar
ReplyTwoKeys == BodyTwoKeys
ReplyNull == BodyFooNull
ReplyProse == BodyProse
\* Replies that are no mapping and hold the category name foo: a plain
\* text and a list.
ReplyProseFoo == <<<<"n", "o", " ", "f", "o", "o">>>>
ReplyListFoo == <<<<"-", " ", "f", "o", "o">>, LnTopItemB>>
NonMappingReplies == {ReplyProse, ReplyProseFoo, ReplyListFoo}
ModelReplies ==
    {ReplyFencedList, ReplyScalar, ReplyNull, ReplyTwoKeys} \cup NonMappingReplies

\* YAMLProcessor.parse_yaml_from_text(response), for each reply.
ParsedReply == [r \in ModelReplies |-> parse_yaml_from_text(Join(r))]

\* results = {'extraction_metadata': {...}}; then results[type] = [] for
\* each type.  The timestamp and the model name are left out.
Metadata(n, types) == [total_documents |-> n, extraction_types |-> types]
RECURSIVE WithTypes(_, _)
WithTypes(res, types) ==
    IF types = <<>> THEN res
    ELSE WithTypes(DictSet(res, types[1], <<>>), Tail(types))
InitialResults(docs, types) ==
    WithTypes(<<[key |-> MetaKey, val |-> Metadata(Len(docs), types)]>>, types)

\* extraction_type in parsed_data: a key of a dict, an element of a list,
\* a substring of a str.
InParsed(type, p) ==
    CASE p.k = "map" -> type \in DictKeys(p.m)
      [] p.k = "list" -> \E j \in 1..Len(p.l) : p.l[j] = ItemStr(type)
      [] p.k = "str" -> \E i \in 1..(Len(p.s) - Len(type) + 1) :
                            SubSeq(p.s, i, i + Len(type) - 1) = type
      [] OTHER -> FALSE

\* parsed_data[extraction_type] on a list or a str that holds the type
\* raises TypeError.
TypeErrorRaised(type, p) == Truthy(p) /\ InParsed(type, p) /\ p.k # "map"

\* if parsed_data and extraction_type in parsed_data:
\*     type_results.append(parsed_data[extraction_type])
\* For a list or a str that holds the type, parsed_data[extraction_type]
\* raises TypeError, which the except clause of the loop body catches:
\* nothing is appended.  The mutants take the first value of the mapping
\* whatever its key, and take the type itself from a list or a str.
CollectedFromAny(type, p) ==
    IF Truthy(p) /\ InParsed(type, p)
    THEN IF p.k = "map" THEN <<DictGet(p.m, type)>> ELSE <<EntryStr(type)>>
    ELSE <<>>
CollectedAnyKey(type, p) ==
    IF Truthy(p) /\ p.k = "map" THEN <<p.m[1].val>> ELSE <<>>
Collected(type, p) ==
    IF Truthy(p) /\ InParsed(type, p) /\ p.k = "map"
    THEN <<DictGet(p.m, type)>>
    ELSE <<>>

\* [{extraction_type: r} for r in type_results]
Wrapped(type, rs) ==
    [i \in 1..Len(rs) |-> PyDict(<<[key |-> type, val |-> rs[i]]>>)]

\* results[extraction_type].extend(merged_results[extraction_type])
\* The mutant assigns the merged list instead.
ExtendResultsAssign(res, type, items) == DictSet(res, type, items)
ExtendResults(res, type, items) ==
    DictSet(res, type, DictGet(res, type) \o items)

\* if type_results: merge, and extend the running result when the key is
\* in the merged dict.
MergedInto(res, type, rs) ==
    IF rs = <<>> THEN res
    ELSE LET merged_results == merge_yaml_results(Wrapped(type, rs))
         IN  IF type \in DictKeys(merged_results)
             THEN ExtendResults(res, type, DictGet(merged_results, type))
             ELSE res

ExtractInit ==
    /\ extracted_texts \in DocLists
    /\ extraction_types \in TypeLists
    /\ doc_i = 0 /\ type_i = 0 /\ chunk_i = 0
    /\ type_results = <<>>
    /\ run_results = InitialResults(extracted_texts, extraction_types)
    /\ collected = [i \in 1..Len(extraction_types) |-> <<>>]
    /\ attempts = 0 /\ errors = 0 /\ calls = 0 /\ format_errors = 0 /\ merges = 0
    /\ run_pc = "doc"
    /\ chunk_size = RunConfig[1] /\ overlap = RunConfig[2]
    /\ text = <<>> /\ start = 0
    /\ chunks = <<>> /\ windows = <<>> /\ pc = "idle"
    /\ ParseIdle
    /\ MergeIdle
    /\ CliIdle

\* for doc_info in extracted_texts: text = doc_info['text'];
\* chunks = self.text_processor.chunk_text(text)
NextDocument ==
    /\ run_pc = "doc"
    /\ doc_i < Len(extracted_texts)
    /\ doc_i' = doc_i + 1
    /\ text' = extracted_texts[doc_i + 1]
    /\ chunks' = chunk_text(extracted_texts[doc_i + 1], chunk_size, overlap)
    /\ type_i' = 0
    /\ run_pc' = "type"
    /\ UNCHANGED <<extracted_texts, extraction_types, chunk_i, type_results,
                   run_results, collected, attempts, errors, calls, format_errors, merges,
                   chunk_size, overlap, start, windows, pc, parseVars, mergeVars, cliVars>>

\* for extraction_type in extraction_types: type_results = []
NextType ==
    /\ run_pc = "type"
    /\ type_i < Len(extraction_types)
    /\ type_i' = type_i + 1
    /\ type_results' = <<>>
    /\ chunk_i' = 0
    /\ run_pc' = "chunk"
    /\ UNCHANGED <<extracted_texts, extraction_types, doc_i, run_results,
                   collected, attempts, errors, calls, format_errors, merges, chunkVars, parseVars, mergeVars, cliVars>>

\* len(chunk) < min_chunk_length
\* The mutant lets every chunk through.
TooShortNever(chunk) == FALSE
TooShort(chunk) == Len(chunk) < min_chunk_length

\* if len(chunk) < min_chunk_length: continue
SkipChunk ==
    /\ run_pc = "chunk"
    /\ chunk_i < Len(chunks)
    /\ TooShort(chunks[chunk_i + 1])
    /\ chunk_i' = chunk_i + 1
    /\ UNCHANGED <<extracted_texts, extraction_types, doc_i, type_i,
                   type_results, run_results, collected, attempts, errors, calls, format_errors, merges, run_pc,
                   chunkVars, parseVars, mergeVars, cliVars>>

\* The try block with a model that gives one of replies: the prompt is
\* formatted, the model replies, the reply is parsed and its value for
\* the type is collected; when taking that value raises TypeError the
\* except clause logs the error.  The loop goes on in both cases.
TryChunk(replies) ==
    /\ run_pc = "chunk"
    /\ chunk_i < Len(chunks)
    /\ ~TooShort(chunks[chunk_i + 1])
    /\ \E r \in replies :
          LET got == Collected(extraction_types[type_i], ParsedReply[r])
          IN  /\ type_results' = type_results \o got
              /\ collected' = [collected EXCEPT ![type_i] = @ \o got]
              /\ errors' = IF TypeErrorRaised(extraction_types[type_i], ParsedReply[r])
                           THEN errors + 1 ELSE errors
    /\ chunk_i' = chunk_i + 1
    /\ attempts' = attempts + 1
    /\ calls' = calls + 1
    /\ UNCHANGED <<extracted_texts, extraction_types, doc_i, type_i,
                   run_results, format_errors, merges, run_pc,
                   chunkVars, parseVars, mergeVars, cliVars>>

\* The try block with any reply of the model.
ProcessChunk == TryChunk(ModelReplies)

\* The try block with a model that never replies with a mapping.
NonMapChunk == TryChunk(NonMappingReplies)

\* except Exception: logger.error(...); continue
\* The loop goes on with the chunk after chunk i of n.  The mutant leaves
\* the loop (break for continue).
BreakAt(i, n) == n
ContinueAt(i, n) == i + 1

\* The statement of the try block that raises, and the calls of
\* self.llm.generate made in the try block by then.  The mutant calls
\* generate again after it has raised.
FailStages == {"format", "generate", "parse"}
CallsMadeRetrying(stage) ==
    CASE stage = "format" -> 0 [] stage = "generate" -> 2 [] OTHER -> 1
CallsMade(stage) == IF stage = "format" THEN 0 ELSE 1

\* format_prompt, self.llm.generate or the parser raises: the except
\* clause logs the error and the loop continues.  The model has been
\* called unless it was format_prompt that raised.
ChunkFails ==
    /\ run_pc = "chunk"
    /\ chunk_i < Len(chunks)
    /\ ~TooShort(chunks[chunk_i + 1])
    /\ chunk_i' = ContinueAt(chunk_i, Len(chunks))
    /\ attempts' = attempts + 1
    /\ errors' = errors + 1
    /\ \E stage \in FailStages :
          /\ calls' = calls + CallsMade(stage)
          /\ format_errors' = IF stage = "format" THEN format_errors + 1
                                                  ELSE format_errors
    /\ UNCHANGED <<extracted_texts, extraction_types, doc_i, type_i,
                   type_results, run_results, collected, merges, run_pc,
                   chunkVars, parseVars, mergeVars, cliVars>>

\* for i, chunk in enumerate(chunks): the loop ends after the last of the
\* n chunks.  The mutant leaves it after the first.
LoopDoneEarly(i, n) == i >= 1 \/ i = n
LoopDone(i, n) == i = n

\* The chunks of the document are done for this type: merge type_results
\* into the running result.
MergeType ==
    /\ run_pc = "chunk"
    /\ LoopDone(chunk_i, Len(chunks))
    /\ run_results' = MergedInto(run_results, extraction_types[type_i], type_results)
    /\ merges' = IF type_results # <<>> THEN merges + 1 ELSE merges
    /\ run_pc' = "type"
    /\ UNCHANGED <<extracted_texts, extraction_types, doc_i, type_i, chunk_i,
                   type_results, collected, attempts, errors, calls, format_errors,
                   chunkVars, parseVars, mergeVars, cliVars>>

\* The types are done for this document.
TypesDone ==
    /\ run_pc = "type"
    /\ type_i = Len(extraction_types)
    /\ run_pc' = "doc"
    /\ UNCHANGED <<extracted_texts, extraction_types, doc_i, type_i, chunk_i,
                   type_results, run_results, collected, attempts, errors, calls, format_errors, merges,
                   chunkVars, parseVars, mergeVars, cliVars>>

\* return results
ExtractReturn ==
    /\ run_pc = "doc"
    /\ doc_i = Len(extracted_texts)
    /\ run_pc' = "done"
    /\ UNCHANGED <<extracted_texts, extraction_types, doc_i, type_i, chunk_i,
                   type_results, run_results, collected, attempts, errors, calls, format_errors, merges,
                   chunkVars, parseVars, mergeVars, cliVars>>

\* A model stub that replies to every prompt with a fenced YAML block
\* holding a one-element list under the category asked for.
StubReply(type) == Block(LnOpenYaml, <<type \o <<":">>, LnItemA>>)

\* The try block with the stub as self.llm.
StubChunk ==
    /\ run_pc = "chunk"
    /\ chunk_i < Len(chunks)
    /\ ~TooShort(chunks[chunk_i + 1])
    /\ LET type == extraction_types[type_i]
           got == Collected(type, parse_yaml_from_text(Join(StubReply(type))))
       IN  /\ type_results' = type_results \o got
           /\ collected' = [collected EXCEPT ![type_i] = @ \o got]
    /\ chunk_i' = chunk_i + 1
    /\ attempts' = attempts + 1
    /\ calls' = calls + 1
    /\ UNCHANGED <<extracted_texts, extraction_types, doc_i, type_i,
                   run_results, errors, format_errors, merges, run_pc, chunkVars, parseVars, mergeVars, cliVars>>

StubNext ==
    \/ NextDocument \/ NextType \/ SkipChunk \/ StubChunk
    \/ MergeType \/ TypesDone \/ ExtractReturn

\* A run with the stub.
SpecStub == ExtractInit /\ [][StubNext]_vars

NonMapNext ==
    \/ NextDocument \/ NextType \/ SkipChunk \/ NonMapChunk
    \/ MergeType \/ TypesDone \/ ExtractReturn

\* A run with a model that never replies with a mapping.
SpecNonMap == ExtractInit /\ [][NonMapNext]_vars

Next ==
    \/ NextDocument \/ NextType \/ SkipChunk \/ ProcessChunk \/ ChunkFails
    \/ MergeType \/ TypesDone \/ ExtractReturn

Spec == ExtractInit /\ [][Next]_vars

\* =====================================================================
\* main, DocumentRAGExtractor.__init__ and process_documents
\* =====================================================================

\* How many files the documents directory holds at most.
MaxFiles == 2

\* TextProcessor.clean_text: every run of whitespace becomes one blank,
\* then the text is trimmed.  (The form feeds, carriage returns, curly
\* quotes and long dashes it also replaces are not in the texts here.)
clean_text(t) ==
    LET idx == [i \in 1..Len(t) |-> i]
        kept == SelectSeq(idx, LAMBDA i :
                    t[i] \notin Whitespace \/ i = 1 \/ t[i - 1] \notin Whitespace)
    IN  strip([j \in 1..Len(kept) |->
                  IF t[kept[j]] \in Whitespace THEN Blank ELSE t[kept[j]]])

\* The structural faults: a required section missing from the
\* configuration, the model type not in the models section, a model type
\* LLMFactory does not know, the documents directory missing.  And a
\* fault of the OCR engine: both easyocr.Reader calls of
\* ImageProcessor.__init__ raise, the second error is raised again, and
\* _initialize_processors, which catches ImportError only, lets it out
\* of DocumentRAGExtractor.__init__.
ConstructionFaults ==
    {"no_section", "model_unconfigured", "model_unsupported", "ocr_init_error"}
Faults == {"none", "no_docs_dir"} \cup ConstructionFaults

\* The files of the directory.  A txt file holds raw text, or bytes that
\* are no UTF-8 ("corrupt"); a file of another type holds what its
\* processor extracts from it, or is corrupt, or makes process() report
\* success False ("fails"); any file can be over max_file_size_mb.
TxtRaw == <<Newline>> \o DocShortTail \o <<Blank, Newline>>
FileKinds ==
    {[type |-> "txt", state |-> "good", content |-> TxtRaw],
     [type |-> "txt", state |-> "corrupt", content |-> <<>>],
     [type |-> "txt", state |-> "oversized", content |-> <<>>],
     [type |-> "pdf", state |-> "good", content |-> DocShortTail],
     [type |-> "pdf", state |-> "corrupt", content |-> <<>>],
     [type |-> "pdf", state |-> "oversized", content |-> <<>>],
     [type |-> "pdf", state |-> "fails", content |-> <<>>],
     [type |-> "image", state |-> "good", content |-> DocShortTail]}
FileLists == UNION {[1..n -> FileKinds] : n \in 0..MaxFiles}

\* The extraction_schema section of the configuration file.
CliSchemas == {<<KeyFoo>>}

\* for file_type, files in files_by_type.items(): the files in the order
\* of the loops, type by type.
OfType(fs, type) == SelectSeq(fs, LAMBDA f : f.type = type)
ByType(fs) ==
    OfType(fs, "pdf") \o OfType(fs, "docx") \o OfType(fs, "image") \o OfType(fs, "txt")

\* What one file adds to extracted_texts.
\*  - validate_file_size is false: continue
\*  - txt: f.read() raises on bytes that are no UTF-8, the except clause
\*    logs it; otherwise clean_text(text) is appended
\*  - no processor for the type: nothing
\*  - result.get('success') is false: nothing
\*  - a corrupt file: extract_text catches the error and returns "", so
\*    process() reports success with text_content ""
Ingested(f, procs) ==
    IF f.state = "oversized" THEN <<>>
    ELSE IF f.type = "txt"
         THEN IF f.state = "corrupt" THEN <<>> ELSE <<clean_text(f.content)>>
    ELSE IF f.type \notin procs THEN <<>>
    ELSE IF f.state = "fails" THEN <<>>
    ELSE IF f.state = "corrupt" THEN << <<>> >>
    ELSE <<f.content>>

\* except Exception: logger.error(...); sys.exit(1)
\* The mutant logs the error and returns.
ExitCodeLogOnly(failed) == 0
ExitCode(failed) == IF failed THEN 1 ELSE 0

CliInit ==
    /\ fault \in Faults
    /\ writable \in BOOLEAN
    /\ processors \in {{"pdf", "docx", "image"}, {"pdf", "docx"}}
    /\ schema \in CliSchemas
    /\ files \in FileLists
    /\ fault = "no_docs_dir" => files = <<>>
    /\ file_i = 0
    /\ output_written = FALSE
    /\ exit_code = -1
    /\ cli_pc = "main"
    /\ text = <<>> /\ chunk_size = 0 /\ overlap = 0 /\ start = 0
    /\ chunks = <<>> /\ windows = <<>> /\ pc = "idle"
    /\ ParseIdle
    /\ MergeIdle
    /\ ExtractIdle

\* DocumentRAGExtractor(...) raises: ConfigManager._validate_config,
\* ConfigManager.get_model_config, LLMFactory.create_llm or
\* _initialize_processors.
ConstructFails ==
    /\ cli_pc = "main"
    /\ fault \in ConstructionFaults
    /\ exit_code' = ExitCode(TRUE)
    /\ cli_pc' = "exit"
    /\ UNCHANGED <<fault, writable, processors, schema, files, file_i,
                   output_written, chunkVars, parseVars, mergeVars, extractVars>>

\* DocumentRAGExtractor(...) returns the extractor.
Construct ==
    /\ cli_pc = "main"
    /\ fault \notin ConstructionFaults
    /\ chunk_size' = RunConfig[1]
    /\ overlap' = RunConfig[2]
    /\ cli_pc' = "process"
    /\ UNCHANGED <<fault, writable, processors, schema, files, file_i,
                   output_written, exit_code, text, start, chunks, windows, pc,
                   parseVars, mergeVars, extractVars>>

\* if not docs_path.exists(): raise FileNotFoundError
DocsDirMissing ==
    /\ cli_pc = "process"
    /\ fault = "no_docs_dir"
    /\ exit_code' = ExitCode(TRUE)
    /\ cli_pc' = "exit"
    /\ UNCHANGED <<fault, writable, processors, schema, files, file_i,
                   output_written, chunkVars, parseVars, mergeVars, extractVars>>

\* files_by_type = get_supported_files(...); extracted_texts = []
ListFiles ==
    /\ cli_pc = "process"
    /\ fault # "no_docs_dir"
    /\ file_i' = 0
    /\ extracted_texts' = <<>>
    /\ cli_pc' = "ingest"
    /\ UNCHANGED <<fault, writable, processors, schema, files,
                   output_written, exit_code, chunkVars, parseVars, mergeVars,
                   extraction_types, doc_i, type_i, chunk_i, type_results,
                   run_results, collected, attempts, errors, calls, format_errors, merges, run_pc>>

\* One file of the loops adds its text to extracted_texts.
IngestFile ==
    /\ cli_pc = "ingest"
    /\ file_i < Len(files)
    /\ Ingested(ByType(files)[file_i + 1], processors) # <<>>
    /\ extracted_texts' = extracted_texts \o Ingested(ByType(files)[file_i + 1], processors)
    /\ file_i' = file_i + 1
    /\ UNCHANGED <<fault, writable, processors, schema, files,
                   output_written, exit_code, cli_pc, chunkVars, parseVars, mergeVars,
                   extraction_types, doc_i, type_i, chunk_i, type_results,
                   run_results, collected, attempts, errors, calls, format_errors, merges, run_pc>>

\* One file of the loops adds nothing.
SkipFile ==
    /\ cli_pc = "ingest"
    /\ file_i < Len(files)
    /\ Ingested(ByType(files)[file_i + 1], processors) = <<>>
    /\ file_i' = file_i + 1
    /\ UNCHANGED <<fault, writable, processors, schema, files,
                   output_written, exit_code, cli_pc, chunkVars, parseVars, mergeVars,
                   extractVars>>

\* for file_type, files in ...: for file_path in files: the loops end
\* after the last of the n files.  The mutant leaves them after the first.
FilesDoneEarly(i, n) == i >= 1 \/ i = n
FilesDone(i, n) == i = n

\* return self.extract_information(extracted_texts): the call, up to the
\* loop over the documents.
StartExtraction ==
    /\ cli_pc = "ingest"
    /\ FilesDone(file_i, Len(files))
    /\ extraction_types' = schema
    /\ doc_i' = 0 /\ type_i' = 0 /\ chunk_i' = 0
    /\ type_results' = <<>>
    /\ run_results' = InitialResults(extracted_texts, schema)
    /\ collected' = [i \in 1..Len(schema) |-> <<>>]
    /\ attempts' = 0 /\ errors' = 0 /\ calls' = 0 /\ format_errors' = 0 /\ merges' = 0
    /\ run_pc' = "doc"
    /\ cli_pc' = "extract"
    /\ UNCHANGED <<fault, writable, processors, schema, files, file_i,
                   output_written, exit_code, extracted_texts,
                   chunkVars, parseVars, mergeVars>>

\* extractor.save_results(results, args.output), the summary, and the
\* return of main.
SaveResults ==
    /\ cli_pc = "extract"
    /\ run_pc = "done"
    /\ writable
    /\ output_written' = TRUE
    /\ exit_code' = ExitCode(FALSE)
    /\ cli_pc' = "exit"
    /\ UNCHANGED <<fault, writable, processors, schema, files, file_i,
                   chunkVars, parseVars, mergeVars, extractVars>>

\* save_results raises: the output directory or file cannot be written.
SaveFails ==
    /\ cli_pc = "extract"
    /\ run_pc = "done"
    /\ ~writable
    /\ exit_code' = ExitCode(TRUE)
    /\ cli_pc' = "exit"
    /\ UNCHANGED <<fault, writable, processors, schema, files, file_i,
                   output_written, chunkVars, parseVars, mergeVars, extractVars>>

CliNext ==
    \/ ConstructFails \/ Construct \/ DocsDirMissing \/ ListFiles
    \/ IngestFile \/ SkipFile \/ StartExtraction
    \/ NextDocument \/ NextType \/ SkipChunk \/ ProcessChunk \/ ChunkFails
    \/ MergeType \/ TypesDone \/ ExtractReturn
    \/ SaveResults \/ SaveFails

\* A run of the command line.
SpecCli == CliInit /\ [][CliNext]_vars

\* ---------------------------------------------- extract_information: claims

\* The Result Merger applied once to every value collected for the type
\* with index i, in the order of collection; the empty sequence when the
\* merged dict has no entry for the type.
MergedOnce(i) ==
    LET type == extraction_types[i]
        all == merge_yaml_results(Wrapped(type, collected[i]))
    IN  IF type \in DictKeys(all) THEN DictGet(all, type) ELSE <<>>

\* C10: for each category the final sequence of a run equals the Result
\* Merger applied once to all the values collected for it over the whole
\* run in document-then-chunk order; merging once per document and
\* category and appending gives that same sequence.
C10_IncrementalIsOnce ==
    run_pc = "done" =>
        \A i \in 1..Len(extraction_types) :
            DictGet(run_results, extraction_types[i]) = MergedOnce(i)

\* Two documents have both contributed to foo, the second one the list of
\* the first again and a scalar: all of it is in the final sequence.
C10_Witness ==
    /\ run_pc = "done"
    /\ Len(extracted_texts) = 2
    /\ extraction_types = <<KeyFoo, KeyX>>
    /\ collected[1] = <<EntryList(<<ItemA, ItemB>>), EntryList(<<ItemA, ItemB>>),
                        EntryStr(<<"d">>)>>
    /\ extracted_texts = <<DocShortTail, DocTwoChunks>>
    /\ DictGet(run_results, KeyFoo) =
          <<ItemA, ItemB, ItemA, ItemB, ItemStr(<<"d">>)>>

\* How many chunks of each document reach min_chunk_length, under the
\* TextProcessor of the run.
UsableChunks ==
    [t \in DocTexts |->
        LET cs == chunk_text(t, RunConfig[1], RunConfig[2])
        IN  Cardinality({j \in 1..Len(cs) : Len(cs[j]) >= min_chunk_length})]

\* How many (document, category, chunk) units of the run have a chunk that
\* reaches min_chunk_length.
RECURSIVE UsableIn(_)
UsableIn(docs) ==
    IF docs = <<>> THEN 0 ELSE UsableChunks[docs[1]] + UsableIn(Tail(docs))
UsableUnits == Len(extraction_types) * UsableIn(extracted_texts)

\* C11: when the model call or the parse raises on some chunks, the run
\* still returns: every unit was attempted, none was dropped with the
\* failing one, and the final sequence of each category is made of the
\* contributions of the chunks that did not fail, in their order.
C11_FailuresContained ==
    (run_pc = "done" /\ errors > 0) =>
        /\ attempts = UsableUnits
        /\ errors <= attempts
        /\ \A i \in 1..Len(extraction_types) :
              DictGet(run_results, extraction_types[i]) = MergedOnce(i)

\* One chunk out of three fails, the other two contribute.
C11_Witness ==
    /\ run_pc = "done"
    /\ extraction_types = <<KeyFoo>>
    /\ attempts = 3
    /\ errors = 1
    /\ collected[1] = <<EntryList(<<ItemA, ItemB>>), EntryStr(<<"d">>)>>
    /\ DictGet(run_results, KeyFoo) = <<ItemA, ItemB, ItemStr(<<"d">>)>>

\* n times the item v.
Repeated(v, n) == [j \in 1..n |-> v]

\* C12: with the stub, the final sequence of each category holds exactly
\* one item per chunk that reaches the minimum chunk length, over all the
\* documents of the run.
C12_OneItemPerChunk ==
    run_pc = "done" =>
        \A i \in 1..Len(extraction_types) :
            DictGet(run_results, extraction_types[i]) =
                Repeated(ItemA, UsableIn(extracted_texts))

\* One document of two chunks gives [a, a].
C12_Witness ==
    /\ run_pc = "done"
    /\ extracted_texts = <<DocTwoChunks>>
    /\ Len(chunks) = 2
    /\ extraction_types = <<KeyFoo>>
    /\ DictGet(run_results, KeyFoo) = <<ItemA, ItemA>>

\* C15: the output of a completed run holds the run metadata under
\* extraction_metadata, with the document count and the categories in
\* schema order, and one sequence per configured category, empty when
\* nothing was extracted for it.
C15_OutputShape ==
    run_pc = "done" =>
        /\ LET meta == DictGet(run_results, MetaKey)
           IN  /\ DOMAIN meta # {}
               /\ meta = Metadata(Len(extracted_texts), extraction_types)
        /\ \A i \in 1..Len(extraction_types) :
              /\ extraction_types[i] \in DictKeys(run_results)
              /\ collected[i] = <<>> =>
                    DictGet(run_results, extraction_types[i]) = <<>>

\* C16: when the chunk at hand is shorter than the minimum chunk length,
\* the step taken goes on to the next chunk and nothing else: no attempt
\* on the model, no error, nothing collected, the results unchanged.
C16_ShortChunkSkipped ==
    [][(/\ run_pc = "chunk"
        /\ chunk_i < Len(chunks)
        /\ Len(chunks[chunk_i + 1]) < min_chunk_length)
       => /\ attempts' = attempts
          /\ errors' = errors
          /\ collected' = collected
          /\ type_results' = type_results
          /\ run_results' = run_results
          /\ chunk_i' = chunk_i + 1
          /\ run_pc' = "chunk"]_vars

\* The 11-character tail of a document has been skipped after its first
\* chunk was processed and gave a list.
C16_Witness ==
    /\ run_pc = "chunk"
    /\ text = DocShortTail
    /\ chunk_i = 2
    /\ Len(chunks[2]) = 11
    /\ attempts = 1
    /\ errors = 0
    /\ type_results = <<EntryList(<<ItemA, ItemB>>)>>

\* ------------------------------------------------------- main: claims

IngestedOK ==
    SelectSeq(ByType(files),
              LAMBDA f : f.state = "good" /\ (f.type = "txt" \/ f.type \in processors))

\* C14: a file whose ingestion fails (corrupt, oversized, processor
\* reporting failure) is excluded: the documents of the run, and the
\* document count of the metadata, are those of the other files.
C14_FailedFilesExcluded ==
    cli_pc \in {"extract", "exit"} /\ run_pc # "idle" =>
        /\ Len(extracted_texts) = Len(IngestedOK)
        /\ DictGet(run_results, MetaKey).total_documents = Len(IngestedOK)

\* The phase of a run: INIT, INGESTING, EXTRACTING (with the merging of
\* each category of each document), extraction returned, DONE or FAILED.
Phase ==
    CASE cli_pc = "main" -> 0
      [] cli_pc \in {"process", "ingest"} -> 1
      [] cli_pc = "extract" /\ run_pc # "done" -> 2
      [] cli_pc = "extract" /\ run_pc = "done" -> 3
      [] OTHER -> 4

\* C23 (as stated): the phases follow one another without going back, and
\* once merge_yaml_results has been called no model call is made.
C23_NoCallAfterMerge ==
    [][/\ Phase' >= Phase
       /\ merges > 0 => calls' = calls]_vars

\* C23 (amended): the phases follow one another without going back; the
\* (document, category) pairs are taken in order; the model is called only
\* while the chunks of the current pair are being processed, and
\* merge_yaml_results is called for a pair only after its last chunk, so
\* that no model call is made for a pair that has been merged.
C23_PhasesInOrder ==
    [][/\ Phase' >= Phase
       /\ doc_i' > doc_i \/ (doc_i' = doc_i /\ type_i' >= type_i)
       /\ calls' # calls =>
             /\ Phase = 2 /\ run_pc = "chunk" /\ run_pc' = "chunk"
             /\ doc_i' = doc_i /\ type_i' = type_i
             /\ chunk_i < Len(chunks) /\ chunk_i' > chunk_i
       /\ merges' # merges =>
             /\ Phase = 2 /\ run_pc = "chunk" /\ run_pc' = "type"
             /\ chunk_i = Len(chunks)
       /\ (run_pc = "type" /\ run_pc' = "chunk") => type_i' > type_i]_vars

\* The second document is being processed after the first was merged.
C23_Witness ==
    /\ cli_pc = "extract"
    /\ doc_i = 2
    /\ run_pc = "chunk"
    /\ merges = 1
    /\ calls = 2

\* C24: ingestion and extraction do not overlap: every file of the
\* directory has been ingested or skipped before the first chunk is sent
\* to the model, no file is taken once extraction has begun, and the
\* documents, the categories and the chunks are taken one at a time, each
\* chunk being one of the current document for the current category.
C24_IngestThenExtract ==
    [][/\ (attempts' # attempts \/ calls' # calls) =>
             /\ cli_pc = "extract" /\ file_i = Len(files)
             /\ attempts' = attempts + 1
             /\ calls' \in {calls, calls + 1}
             /\ doc_i \in 1..Len(extracted_texts)
             /\ text = extracted_texts[doc_i]
             /\ chunk_i < Len(chunks)
             /\ type_i \in 1..Len(extraction_types)
             /\ chunk_i' = chunk_i + 1
             /\ doc_i' = doc_i /\ type_i' = type_i
       /\ (file_i' # file_i \/ extracted_texts' # extracted_texts) =>
             /\ cli_pc \in {"process", "ingest"}
             /\ run_pc = "idle" /\ run_pc' = "idle"
             /\ attempts = 0 /\ calls = 0
             /\ file_i' \in {0, file_i + 1}
       /\ doc_i' \in {doc_i, doc_i + 1}
       /\ type_i' \in {type_i, type_i + 1, 0}
       /\ chunk_i' \in {chunk_i, chunk_i + 1, 0}
       /\ doc_i' # doc_i => (type_i' = 0 /\ chunk_i' = chunk_i)
       /\ type_i' = type_i + 1 => (doc_i' = doc_i /\ chunk_i' = 0)]_vars

\* The model has been called in a run that ingested one of its two files
\* and skipped the other.
C24_Witness ==
    /\ cli_pc = "extract"
    /\ Len(files) = 2 /\ file_i = 2
    /\ Len(extracted_texts) = 1
    /\ calls = 1

\* C25: failures are single-attempt.  Every unit whose chunk reaches the
\* minimum length is taken once; it causes one model call, or none when
\* format_prompt raised; after a failure the loop goes on with the next
\* chunk and the failed unit is not taken again.
C25_SingleAttempt ==
    [][/\ calls' + format_errors' = attempts'
       /\ calls' \in {calls, calls + 1}
       /\ errors' # errors =>
             /\ errors' = errors + 1
             /\ attempts' = attempts + 1
             /\ chunk_i' = chunk_i + 1
             /\ doc_i' = doc_i /\ type_i' = type_i
       /\ chunk_i' # chunk_i => (chunk_i' = 0 \/ chunk_i' = chunk_i + 1)
       /\ run_pc' = "done" =>
             /\ attempts' = UsableUnits
             /\ calls' = UsableUnits - format_errors']_vars

\* Three units: format_prompt raised for one, the model call or the parse
\* failed for another, the third went through.
C25_Witness ==
    /\ run_pc = "done"
    /\ UsableUnits = 3
    /\ attempts = 3
    /\ format_errors = 1
    /\ errors = 2
    /\ calls = 2

\* What a reply can add for the category type: the value under the key
\* type of a parsed mapping that has this key, and nothing otherwise.
ValueFor(type, p) ==
    IF p.k = "map" /\ type \in DictKeys(p.m) THEN <<DictGet(p.m, type)>> ELSE <<>>

\* C26: processing a chunk for category c changes only what is collected
\* for c: the parsed value is collected only when the key c is in the
\* parsed mapping, the other keys of the reply are ignored, and what is
\* collected for the other categories, and their sequences in the
\* results, stay as they are (also when the results of c are merged).
C26_OnlyOwnCategory ==
    [][/\ attempts' # attempts =>
             /\ \E r \in ModelReplies :
                   LET got == ValueFor(extraction_types[type_i], ParsedReply[r])
                   IN  \/ /\ collected'[type_i] = collected[type_i] \o got
                          /\ type_results' = type_results \o got
                       \/ /\ errors' = errors + 1
                          /\ collected' = collected
                          /\ type_results' = type_results
             /\ \A j \in 1..Len(extraction_types) :
                   j # type_i => collected'[j] = collected[j]
             /\ run_results' = run_results
       /\ (run_pc \in {"chunk", "type", "doc"} /\ run_results' # run_results) =>
             /\ attempts' = attempts
             /\ \A j \in 1..Len(extraction_types) :
                   j # type_i =>
                       DictGet(run_results', extraction_types[j]) =
                           DictGet(run_results, extraction_types[j])]_vars

\* A reply with the keys x and foo was processed for foo and for x: each
\* category has collected the value under its own key only.
C26_Witness ==
    /\ extraction_types = <<KeyFoo, KeyX>>
    /\ run_pc = "done"
    /\ collected = <<<<EntryList(<<ItemA>>)>>, <<EntryList(<<ItemB>>)>>>>
    /\ DictGet(run_results, KeyFoo) = <<ItemA>>
    /\ DictGet(run_results, KeyX) = <<ItemB>>

\* C29: when the parser returns a value that is no mapping (a plain text
\* or a list, also one that holds the category name) the chunk adds no
\* item to any category and the loop goes on with the next chunk: the run
\* takes every unit and returns, every category with the empty sequence.
C29_NonMappingIgnored ==
    /\ type_results = <<>>
    /\ \A i \in 1..Len(collected) : collected[i] = <<>>
    /\ \A i \in 1..Len(extraction_types) :
          DictGet(run_results, extraction_types[i]) = <<>>
    /\ errors <= attempts /\ calls = attempts
    /\ run_pc = "done" => attempts = UsableUnits

\* A run has returned after three replies that were no mappings; taking
\* the value raised TypeError for one or two of them.
C29_Witness ==
    /\ run_pc = "done"
    /\ KeyFoo \in {extraction_types[i] : i \in 1..Len(extraction_types)}
    /\ attempts = 3
    /\ errors \in {1, 2}
    /\ \A i \in 1..Len(collected) : collected[i] = <<>>

\* C30: a failure to initialise the processor of one file type, whatever
\* its cause, does not abort the run: the run ends as one without the
\* failure does (the output written, exit code 0, when the output file
\* can be written), the files of that type are skipped and the files of
\* the other types are ingested.
C30_ProcessorInitContained ==
    /\ (fault = "ocr_init_error" /\ cli_pc = "exit" /\ writable) =>
          (exit_code = 0 /\ output_written)
    /\ (fault = "none" /\ "image" \notin processors /\ cli_pc = "exit" /\ writable) =>
          /\ exit_code = 0 /\ output_written
          /\ Len(extracted_texts) =
                Len(SelectSeq(files, LAMBDA f :
                        f.type # "image" /\ Ingested(f, processors) # <<>>))

====
